---- MODULE Spec2Model ----
(***************************************************************************)
(* A model of the API test-suite helpers: the response validator           *)
(* (utils/validators.py), the HTTP client wrapper (utils/api_client.py),   *)
(* the endpoint registry (utils/api_endpoints.py), the fixtures            *)
(* (data/test_data.py) and the session-scoped client (conftest.py).        *)
(***************************************************************************)
EXTENDS Integers, Sequences, FiniteSets, TLC

VARIABLES
    \* ---- ResponseValidator.validate_json_schema (one call)
    body,        \* the response_json argument
    schema,      \* the schema argument
    vpc,         \* "ready" | "returned" | "raised"
    vresult,     \* "none" | "True" | "False" | the name of the exception raised
    printed,     \* the lines print() wrote
    \* ---- ResponseValidator.validate_response_time (one call)
    elapsed,     \* response.elapsed, a timedelta: [seconds, microseconds]
    max_time_ms, \* the max_time_ms argument
    tpc,         \* "ready" | "returned" | "raised"
    terror,      \* the AssertionError raised: [name, elapsed, limit]
    \* ---- APIEndpoints.get_full_url and the templates (one call)
    template,    \* a path template of the registry
    kwname,      \* the keyword a caller passes to str.format
    resid,       \* the resource id it passes
    upc,         \* "ready" | "returned" | "raised"
    ucall,       \* what the caller called
    uresult,     \* the string returned
    \* ---- APIClient and its callers
    usage,          \* how the caller holds the client: "plain" | "with" | "fixture"
    cpc,            \* "start" | "constructed" | "inblock" | "exiting" | "left" | "closed"
    base_url,       \* self.base_url
    timeout,        \* self.timeout
    session,        \* self.session: the number of the Session object
    sessionHeaders, \* self.session.headers
    sessionClosed,  \* whether self.session.close() has run
    sessionsCreated, \* how many Session objects exist
    clientsCreated, \* how many APIClient objects exist
    closeCalls,     \* how many times APIClient.close ran
    wire,           \* the request attempts sent, in order
    calls,          \* how many verb methods were called
    transport,      \* what the last attempt ended with
    callerSees,     \* what the last verb call gave its caller
    blockExc,       \* the exception that ended the with block, or "none"
    propagating,    \* the exception propagating after the with statement
    \* ---- the test run (conftest.py)
    tphase,         \* "idle" | "between" | "intest" | "teardown" | "finished"
    testsDone,      \* how many tests have finished
    outcomes,       \* their outcomes, in order
    \* ---- the field validators of ResponseValidator (one call)
    response_json,  \* the response_json argument
    field_name,     \* the field_name argument
    expected_type,  \* the expected_type argument: the name of a Python type
    fcall,          \* the validator called
    fpc,            \* "ready" | "returned" | "raised"
    fexc,           \* the exception raised: [name, message]
    \* ---- one test case of tests/ against one response
    testcase,       \* the name of the test function
    response,       \* what api_client.get / post returned
    kpc,            \* "ready" | "passed" | "failed"
    kexc,           \* the exception that failed the test
    created_resources, \* the created_resources fixture's list
    \* ---- callers sharing one APIClient
    frames,         \* each caller's frame inside a verb method
    network,        \* the requests sent through the session, in order
    started         \* how many verb calls have begun

schemaVars == <<body, schema, vpc, vresult, printed>>
timeVars == <<elapsed, max_time_ms, tpc, terror>>

urlVars == <<template, kwname, resid, upc, ucall, uresult>>

configVars == <<base_url, timeout, session, sessionHeaders>>
clientVars ==
    <<usage, cpc, configVars, sessionClosed, sessionsCreated, clientsCreated,
      closeCalls, wire, calls, transport, callerSees, blockExc, propagating>>
runVars == <<tphase, testsDone, outcomes>>

fieldVars ==
    <<response_json, field_name, expected_type, fcall, fpc, fexc>>
caseVars == <<testcase, response, kpc, kexc, created_resources>>
sharedVars == <<frames, network, started>>

vars ==
    <<schemaVars, timeVars, urlVars, clientVars, runVars, fieldVars,
      caseVars, sharedVars>>

(***************************************************************************)
(* Each specification below runs one component; the variables of the       *)
(* others rest at these values.                                            *)
(***************************************************************************)
NoError == [name |-> "none", elapsed |-> 0, limit |-> 0]

IdleSchema ==
    /\ schema = <<>>
    /\ body = <<>>
    /\ vpc = "idle"
    /\ vresult = "none"
    /\ printed = <<>>

IdleTime ==
    /\ elapsed = [seconds |-> 0, microseconds |-> 0]
    /\ max_time_ms = 0
    /\ tpc = "idle"
    /\ terror = NoError

IdleUrl ==
    /\ template = <<>>
    /\ kwname = <<>>
    /\ resid = 0
    /\ upc = "idle"
    /\ ucall = "none"
    /\ uresult = <<>>

\* No client exists yet.
NoClient ==
    /\ base_url = <<>>
    /\ timeout = 0
    /\ session = 0
    /\ sessionHeaders = <<>>
    /\ sessionClosed = FALSE
    /\ sessionsCreated = 0
    /\ clientsCreated = 0
    /\ closeCalls = 0
    /\ wire = <<>>
    /\ calls = 0
    /\ transport = "none"
    /\ callerSees = "none"
    /\ blockExc = "none"
    /\ propagating = "none"

IdleClient ==
    /\ NoClient
    /\ usage = "none"
    /\ cpc = "idle"

IdleRun ==
    /\ tphase = "idle"
    /\ testsDone = 0
    /\ outcomes = <<>>

NoException == [name |-> "none", message |-> "none"]

IdleField ==
    /\ response_json = <<>>
    /\ field_name = "none"
    /\ expected_type = "none"
    /\ fcall = "none"
    /\ fpc = "idle"
    /\ fexc = NoException

IdleCase ==
    /\ testcase = "none"
    /\ response = <<>>
    /\ kpc = "idle"
    /\ kexc = NoException
    /\ created_resources = <<>>

IdleShared ==
    /\ frames = <<>>
    /\ network = <<>>
    /\ started = 0

(***************************************************************************)
(* JSON values as Python decodes them: the runtime type and the JSON text. *)
(***************************************************************************)
PyStr(s) == [pytype |-> "str", val |-> s]
PyInt(s) == [pytype |-> "int", val |-> s]
PyBool(s) == [pytype |-> "bool", val |-> s]
PyFloat(s) == [pytype |-> "float", val |-> s]
PyNone == [pytype |-> "NoneType", val |-> "null"]

EmptyItems == [f \in {} |-> PyNone]
Dict(items) == [pytype |-> "dict", items |-> items]
NonDict(t) == [pytype |-> t, items |-> EmptyItems]

(***************************************************************************)
(* data/test_data.py: the create payloads and the schemas.                 *)
(***************************************************************************)
VALID_USER_CREATE ==
    Dict([f \in {"name", "username", "email", "phone", "website"} |->
        CASE f = "name" -> PyStr("John Doe")
          [] f = "username" -> PyStr("johndoe")
          [] f = "email" -> PyStr("john.doe@example.com")
          [] f = "phone" -> PyStr("1-234-567-8901")
          [] f = "website" -> PyStr("johndoe.com")])

VALID_POST_CREATE ==
    Dict([f \in {"title", "body", "userId"} |->
        CASE f = "title" -> PyStr("Test Post Title")
          [] f = "body" -> PyStr("This is a test post body with some content.")
          [] f = "userId" -> PyInt("1")])

VALID_COMMENT_CREATE ==
    Dict([f \in {"name", "email", "body"} |->
        CASE f = "name" -> PyStr("Test Comment")
          [] f = "email" -> PyStr("commenter@example.com")
          [] f = "body" -> PyStr("This is a test comment.")])

Prop(n, t) == [name |-> n, type |-> t, format |-> "none"]
PropFmt(n, t, fmt) == [name |-> n, type |-> t, format |-> fmt]

USER_SCHEMA ==
    [name |-> "USER_SCHEMA",
     type |-> "object",
     properties |-> <<Prop("id", "integer"), Prop("name", "string"),
                      Prop("username", "string"),
                      PropFmt("email", "string", "email"),
                      Prop("phone", "string"), Prop("website", "string")>>,
     required |-> <<"id", "name", "username", "email">>]

POST_SCHEMA ==
    [name |-> "POST_SCHEMA",
     type |-> "object",
     properties |-> <<Prop("id", "integer"), Prop("userId", "integer"),
                      Prop("title", "string"), Prop("body", "string")>>,
     required |-> <<"id", "userId", "title", "body">>]

COMMENT_SCHEMA ==
    [name |-> "COMMENT_SCHEMA",
     type |-> "object",
     properties |-> <<Prop("id", "integer"), Prop("postId", "integer"),
                      Prop("name", "string"), Prop("email", "string"),
                      Prop("body", "string")>>,
     required |-> <<"id", "postId", "name", "email", "body">>]

FixtureSchemas == {USER_SCHEMA, POST_SCHEMA, COMMENT_SCHEMA}

\* The create payload that goes with each schema.
FixtureFor(s) ==
    CASE s.name = "USER_SCHEMA" -> VALID_USER_CREATE
      [] s.name = "POST_SCHEMA" -> VALID_POST_CREATE
      [] s.name = "COMMENT_SCHEMA" -> VALID_COMMENT_CREATE

(***************************************************************************)
(* jsonschema.validate, as validate_json_schema calls it (no format        *)
(* checker): check_schema first, then the best match of the errors.        *)
(***************************************************************************)
SimpleTypes ==
    {"array", "boolean", "integer", "null", "number", "object", "string"}

\* check_schema: the schema document against its metaschema.
CheckSchema(s) ==
    /\ s.type \in SimpleTypes
    /\ \A i \in 1..Len(s.properties) : s.properties[i].type \in SimpleTypes

\* The floats float.is_integer() holds of, among the values of the model.
IntegralFloats == {"1.0"}

\* The type checker of the draft: a bool is no integer and no number, and a
\* float without a fractional part is an integer.
IsType(pytype, val, t) ==
    CASE t = "object" -> pytype = "dict"
      [] t = "array" -> pytype = "list"
      [] t = "string" -> pytype = "str"
      [] t = "boolean" -> pytype = "bool"
      [] t = "null" -> pytype = "NoneType"
      [] t = "integer" ->
            pytype = "int" \/ (pytype = "float" /\ val \in IntegralFloats)
      [] t = "number" -> pytype \in {"int", "float"}
      [] OTHER -> FALSE

Range(s) == {s[i] : i \in 1..Len(s)}

PropertyFails(instance, p) ==
    /\ p.name \in DOMAIN instance.items
    /\ ~IsType(instance.items[p.name].pytype, instance.items[p.name].val, p.type)

RequiredFails(instance, r) == r \notin DOMAIN instance.items

\* iter_errors: the keywords in the document's order: type, properties, required.
IterErrors(instance, s) ==
    LET typeErrs ==
            IF IsType(instance.pytype, "", s.type) THEN <<>>
            ELSE <<[validator |-> "type", path |-> <<>>, subject |-> s.type]>>
        PF(p) == PropertyFails(instance, p)
        badProps == SelectSeq(s.properties, PF)
        propErrs ==
            IF instance.pytype # "dict" THEN <<>>
            ELSE [i \in 1..Len(badProps) |->
                    [validator |-> "type", path |-> <<badProps[i].name>>,
                     subject |-> badProps[i].type]]
        RF(r) == RequiredFails(instance, r)
        missing == SelectSeq(s.required, RF)
        reqErrs ==
            IF instance.pytype # "dict" THEN <<>>
            ELSE [i \in 1..Len(missing) |->
                    [validator |-> "required", path |-> <<>>,
                     subject |-> missing[i]]]
    IN typeErrs \o propErrs \o reqErrs

\* best_match: the first error of the shortest path.
BestMatch(errs) ==
    LET top == {i \in 1..Len(errs) : errs[i].path = <<>>}
        firstOf(S) == CHOOSE i \in S : \A j \in S : i <= j
    IN IF top # {} THEN errs[firstOf(top)] ELSE errs[1]

Validate(instance, s) ==
    IF ~CheckSchema(s) THEN [exc |-> "SchemaError"]
    ELSE LET errs == IterErrors(instance, s)
         IN IF errs = <<>> THEN [exc |-> "none"]
            ELSE [exc |-> "ValidationError", error |-> BestMatch(errs)]

Conforms(instance, s) == CheckSchema(s) /\ IterErrors(instance, s) = <<>>

(***************************************************************************)
(* The inputs of a call: a schema document, as written or with a Python    *)
(* type name where a JSON Schema type name belongs, and a body over the    *)
(* schema's fields.                                                        *)
(***************************************************************************)
NumValueChoices == 3

PropNames(s) == {s.properties[i].name : i \in 1..Len(s.properties)}
PropOf(s, f) == CHOOSE p \in Range(s.properties) : p.name = f

PickValue(s, f, i) ==
    CASE i = 1 ->
            IF f \in DOMAIN FixtureFor(s).items THEN FixtureFor(s).items[f]
            ELSE PyInt("1")
      [] i = 2 ->
            IF PropOf(s, f).type = "string" THEN PyInt("0") ELSE PyStr("1")
      [] i = 3 -> PyNone
      [] i = 4 -> PyFloat("1.0")
      [] i = 5 -> PyBool("true")
      [] OTHER -> PyFloat("1.5")

BodiesFor(s) ==
    {Dict([f \in DOMAIN c |-> PickValue(s, f, c[f])]) :
        c \in UNION {[D -> 1..NumValueChoices] : D \in SUBSET PropNames(s)}}
    \cup {NonDict("list"), NonDict("NoneType"), NonDict("str")}

WrongTopType(s) == [s EXCEPT !.type = "dict"]
WrongPropType(s) ==
    [s EXCEPT !.properties[1] = [@ EXCEPT !.type = "int"]]

SchemaDocs ==
    FixtureSchemas \cup {WrongTopType(s) : s \in FixtureSchemas}
                   \cup {WrongPropType(s) : s \in FixtureSchemas}

(***************************************************************************)
(* ResponseValidator.validate_json_schema                                  *)
(***************************************************************************)
\* except ValidationError: SchemaError is a sibling class, not a subclass.
ExceptValidationError(exc) == exc = "ValidationError"

ReturnValueAlwaysTrue(exc) == "True"

\* return True after validate(); return False in the handler.
ReturnValue(exc) == IF exc = "none" THEN "True" ELSE "False"

validate_json_schema ==
    /\ vpc = "ready"
    /\ LET r == Validate(body, schema)
       IN IF r.exc = "none"
          THEN /\ vpc' = "returned"
               /\ vresult' = ReturnValue(r.exc)
               /\ printed' = <<>>
          ELSE IF ExceptValidationError(r.exc)
          THEN /\ vpc' = "returned"
               /\ vresult' = ReturnValue(r.exc)
               /\ printed' = <<[line |-> "Schema validation failed",
                                message |-> <<r.error.validator, r.error.subject>>],
                               [line |-> "Failed at path",
                                message |-> r.error.path]>>
          ELSE /\ vpc' = "raised"
               /\ vresult' = r.exc
               /\ printed' = <<>>
    /\ UNCHANGED <<body, schema>>
    /\ UNCHANGED <<timeVars, urlVars, clientVars, runVars,
                   fieldVars, caseVars, sharedVars>>

InitSchema ==
    /\ IdleField
    /\ IdleCase
    /\ IdleShared
    /\ IdleTime
    /\ IdleUrl
    /\ IdleClient
    /\ IdleRun
    /\ schema \in SchemaDocs
    /\ body \in BodiesFor(schema)
    /\ vpc = "ready"
    /\ vresult = "none"
    /\ printed = <<>>

NextSchema == validate_json_schema

SpecSchema == InitSchema /\ [][NextSchema]_vars

(***************************************************************************)
(* Python's arithmetic in validate_response_time.  total_seconds() is the  *)
(* integer count of microseconds truly divided by 10**6, a double; the     *)
(* product with 1000 is a double again.  Both round to nearest, ties to    *)
(* even, at 53 bits.  The numbers exceed 32-bit integers, so they          *)
(* are held as little-endian sequences of base-1000 limbs: a double is     *)
(* [m, k], the value m * 2^(-k) with m below 2^53 + 1.                      *)
(***************************************************************************)
Limb == 1000
\* The widest step that keeps limb * 2^Chunk + carry within 32 bits.
Chunk == 20

RECURSIVE FromNat(_)
FromNat(n) == IF n = 0 THEN <<>> ELSE <<n % Limb>> \o FromNat(n \div Limb)

RECURSIVE ToNat(_)
ToNat(x) == IF x = <<>> THEN 0 ELSE x[1] + Limb * ToNat(Tail(x))

RECURSIVE MulSmallCarry(_, _, _)
MulSmallCarry(x, c, carry) ==
    IF x = <<>> THEN FromNat(carry)
    ELSE LET v == x[1] * c + carry
         IN <<v % Limb>> \o MulSmallCarry(Tail(x), c, v \div Limb)

MulSmall(x, c) == MulSmallCarry(x, c, 0)
Inc(x) == MulSmallCarry(x, 1, 1)

\* Drop the leading zero limbs (the high end of the sequence).
RECURSIVE Trim(_)
Trim(x) ==
    IF x = <<>> THEN <<>>
    ELSE IF x[Len(x)] = 0 THEN Trim(SubSeq(x, 1, Len(x) - 1)) ELSE x

\* x divided by a small c, from the high limb down: [q, r].
RECURSIVE DivFrom(_, _, _, _)
DivFrom(x, c, i, rem) ==
    IF i = 0 THEN [q |-> <<>>, r |-> rem]
    ELSE LET v == rem * Limb + x[i]
             rest == DivFrom(x, c, i - 1, v % c)
         IN [q |-> rest.q \o <<v \div c>>, r |-> rest.r]

DivSmall(x, c) ==
    LET d == DivFrom(x, c, Len(x), 0) IN [q |-> Trim(d.q), r |-> d.r]

IsOdd(x) == x # <<>> /\ x[1] % 2 = 1

RECURSIVE LessFrom(_, _, _)
LessFrom(x, y, i) ==
    IF i = 0 THEN FALSE
    ELSE IF x[i] # y[i] THEN x[i] < y[i]
    ELSE LessFrom(x, y, i - 1)

Less(x, y) ==
    IF Len(x) # Len(y) THEN Len(x) < Len(y) ELSE LessFrom(x, y, Len(x))

\* x * 2^n, a chunk of bits at a time.
RECURSIVE ShiftLeft(_, _)
ShiftLeft(x, n) ==
    IF n <= Chunk THEN MulSmall(x, 2 ^ n)
    ELSE ShiftLeft(MulSmall(x, 2 ^ Chunk), n - Chunk)

\* floor(x / 2^n) with the rounding bits: the last bit shifted out and
\* whether any bit before it was set.
RECURSIVE ShiftRightSticky(_, _, _)
ShiftRightSticky(x, n, sticky) ==
    IF n = 0 THEN [x |-> x, last |-> 0, sticky |-> sticky]
    ELSE IF n <= Chunk
    THEN LET d == DivSmall(x, 2 ^ n)
             half == 2 ^ (n - 1)
         IN [x |-> d.q,
             last |-> d.r \div half,
             sticky |-> IF sticky = 1 \/ d.r % half # 0 THEN 1 ELSE 0]
    ELSE LET d == DivSmall(x, 2 ^ Chunk)
         IN ShiftRightSticky(d.q, n - Chunk,
                             IF sticky = 1 \/ d.r # 0 THEN 1 ELSE 0)

ShiftRight(x, n) == ShiftRightSticky(x, n, 0)

\* A double's significand has 53 bits.
TwoPow52 == ShiftLeft(<<1>>, 52)
TwoPow53 == ShiftLeft(<<1>>, 53)
Micro == 1000000
\* No quotient or product of the model needs a longer shift than this.
MaxShift == 80

\* Round to nearest, ties to even: m with the last bit shifted out and the
\* OR of the bits before it.
RoundEven(m, last, sticky) ==
    IF last = 1 /\ (sticky = 1 \/ IsOdd(m)) THEN Inc(m) ELSE m

\* n / 10**6 for a positive int n below 2^52 * 10^6: n is scaled by 2^k so
\* that the quotient has 53 bits, and the remainder rounds it.
TrueDivMicro(n) ==
    IF n = 0 THEN [m |-> <<>>, k |-> 0]
    ELSE LET x == FromNat(n)
             low == <<0, 0>> \o TwoPow52
             k == CHOOSE i \in 0..MaxShift :
                    /\ ~Less(ShiftLeft(x, i), low)
                    /\ \A h \in 0..(i - 1) : Less(ShiftLeft(x, h), low)
             sx == ShiftLeft(x, k)
             q == SubSeq(sx, 3, Len(sx))
             rem == sx[1] + Limb * sx[2]
             half == Micro \div 2
             up == rem > half \/ (rem = half /\ IsOdd(q))
         IN [m |-> IF up THEN Inc(q) ELSE q, k |-> k]

\* f * c for a double f and a small int c: the exact product, shifted right
\* until it is below 2^53 and rounded.
FloatMul(f, c) ==
    IF f.m = <<>> THEN f
    ELSE LET p == MulSmall(f.m, c)
             j == CHOOSE i \in 0..MaxShift :
                    /\ Less(p, ShiftLeft(TwoPow53, i))
                    /\ \A h \in 0..(i - 1) : ~Less(p, ShiftLeft(TwoPow53, h))
             sd == ShiftRight(p, j)
         IN [m |-> RoundEven(sd.x, sd.last, sd.sticky), k |-> f.k - j]

\* f < t for a double f and an int t: Python compares them exactly.
FloatLessInt(f, t) ==
    IF f.k >= 0 THEN Less(f.m, ShiftLeft(FromNat(t), f.k))
    ELSE Less(ShiftLeft(f.m, 0 - f.k), FromNat(t))

\* The text of f"{f:.2f}", as the count of hundredths it prints.
Format2f(f) ==
    IF f.k <= 0 THEN ToNat(ShiftLeft(MulSmall(f.m, 100), 0 - f.k))
    ELSE LET sh == ShiftRight(MulSmall(f.m, 100), f.k)
         IN ToNat(RoundEven(sh.x, sh.last, sh.sticky))

(***************************************************************************)
(* ResponseValidator.validate_response_time                                *)
(***************************************************************************)
\* timedelta.total_seconds(): the microseconds of the timedelta over 10**6.
TotalSeconds(td) == TrueDivMicro(td.seconds * Micro + td.microseconds)

\* response_time_ms = response.elapsed.total_seconds() * 1000
ResponseTimeMs(td) == FloatMul(TotalSeconds(td), 1000)

\* assert response_time_ms < max_time_ms
WithinLimit(ms, limit) == FloatLessInt(ms, limit)

validate_response_time ==
    /\ tpc = "ready"
    /\ LET ms == ResponseTimeMs(elapsed)
       IN IF WithinLimit(ms, max_time_ms)
          THEN /\ tpc' = "returned"
               /\ terror' = NoError
          ELSE /\ tpc' = "raised"
               /\ terror' = [name |-> "AssertionError",
                             elapsed |-> Format2f(ms),
                             limit |-> max_time_ms]
    /\ UNCHANGED <<elapsed, max_time_ms>>
    /\ UNCHANGED <<schemaVars, urlVars, clientVars, runVars,
                   fieldVars, caseVars, sharedVars>>

\* data/test_data.py
MAX_RESPONSE_TIME_GET == 3000
MAX_RESPONSE_TIME_POST == 3000
\* The limit of the docstring's example.
DocExampleLimit == 2000

ThresholdLo == 999
ThresholdSpan == 4
MaxOffset == 1

Thresholds ==
    {MAX_RESPONSE_TIME_GET, MAX_RESPONSE_TIME_POST, DocExampleLimit}
        \cup (ThresholdLo .. (ThresholdLo + ThresholdSpan))

\* Elapsed times around every limit, in microseconds.
ElapsedMicros ==
    {t * 1000 + d : t \in Thresholds, d \in (0 - MaxOffset) .. MaxOffset}

TimeDelta(n) == [seconds |-> n \div Micro, microseconds |-> n % Micro]
MicrosOf(td) == td.seconds * Micro + td.microseconds

InitTime ==
    /\ IdleField
    /\ IdleCase
    /\ IdleShared
    /\ IdleSchema
    /\ IdleUrl
    /\ IdleClient
    /\ IdleRun
    /\ max_time_ms \in Thresholds
    /\ elapsed \in {TimeDelta(n) : n \in ElapsedMicros}
    /\ tpc = "ready"
    /\ terror = NoError

NextTime == validate_response_time

SpecTime == InitTime /\ [][NextTime]_vars

(***************************************************************************)
(* The claims about the validator.                                         *)
(***************************************************************************)
\* A body lacks a field of the schema's "required" list.
LacksRequired(instance, s) ==
    \E r \in Range(s.required) : r \notin DOMAIN instance.items

\* The create payload with integers for the required fields it does not
\* carry: "id", and "postId" for a comment.
CompletedFixture(s) ==
    Dict([f \in DOMAIN FixtureFor(s).items \cup Range(s.required) |->
            PickValue(s, f, 1)])

\* C1: validate_json_schema never raises: for every body and every schema
\* document, one that is itself malformed included, the call returns a
\* boolean, True when the body conforms to the schema and False otherwise.
C1_NeverRaises ==
    vpc \in {"returned", "raised"} =>
        /\ vpc = "returned"
        /\ vresult \in {"True", "False"}
        /\ (vresult = "True" <=> Conforms(body, schema))

\* C2, as stated: each create fixture validates against its schema (True),
\* and every payload that lacks a required field does not (False).
C2_FixturesValidate ==
    (vpc = "returned" /\ schema \in FixtureSchemas) =>
        /\ (body = FixtureFor(schema) => vresult = "True")
        /\ (LacksRequired(body, schema) => vresult = "False")

\* C2, amended: each create fixture lacks the required "id" (a comment also
\* "postId") of its schema, so the call returns False for it; it returns
\* True for the fixture completed with integers for those fields; and it
\* returns False for every payload that lacks a required field.
C2_FixturesNeedIds ==
    (vpc # "ready" /\ schema \in FixtureSchemas) =>
        /\ vpc = "returned"
        /\ (body = FixtureFor(schema) => vresult = "False")
        /\ (body = CompletedFixture(schema) => vresult = "True")
        /\ (LacksRequired(body, schema) => vresult = "False")

\* A create fixture has been validated against its schema, and the call
\* printed the failure and returned False.
C2_Witness ==
    /\ vpc = "returned"
    /\ schema = COMMENT_SCHEMA
    /\ body = VALID_COMMENT_CREATE
    /\ vresult = "False"
    /\ printed # <<>>

BASE_URL ==
    <<"h", "t", "t", "p", "s", ":", "/", "/", "j", "s", "o", "n", "p",
      "l", "a", "c", "e", "h", "o", "l", "d", "e", "r", ".", "t", "y",
      "p", "i", "c", "o", "d", "e", ".", "c", "o", "m">>

\* "/users"
USERS ==
    <<"/", "u", "s", "e", "r", "s">>

\* "/users/{user_id}"
USER_BY_ID ==
    <<"/", "u", "s", "e", "r", "s", "/", "{", "u", "s", "e", "r", "_",
      "i", "d", "}">>

\* "/posts"
POSTS ==
    <<"/", "p", "o", "s", "t", "s">>

\* "/posts/{post_id}"
POST_BY_ID ==
    <<"/", "p", "o", "s", "t", "s", "/", "{", "p", "o", "s", "t", "_",
      "i", "d", "}">>

\* "/posts?userId={user_id}"
USER_POSTS ==
    <<"/", "p", "o", "s", "t", "s", "?", "u", "s", "e", "r", "I", "d",
      "=", "{", "u", "s", "e", "r", "_", "i", "d", "}">>

\* "/comments"
COMMENTS ==
    <<"/", "c", "o", "m", "m", "e", "n", "t", "s">>

\* "/comments/{comment_id}"
COMMENT_BY_ID ==
    <<"/", "c", "o", "m", "m", "e", "n", "t", "s", "/", "{", "c", "o",
      "m", "m", "e", "n", "t", "_", "i", "d", "}">>

\* "/posts/{post_id}/comments"
POST_COMMENTS ==
    <<"/", "p", "o", "s", "t", "s", "/", "{", "p", "o", "s", "t", "_",
      "i", "d", "}", "/", "c", "o", "m", "m", "e", "n", "t", "s">>

\* "/albums"
ALBUMS ==
    <<"/", "a", "l", "b", "u", "m", "s">>

\* "/albums/{album_id}"
ALBUM_BY_ID ==
    <<"/", "a", "l", "b", "u", "m", "s", "/", "{", "a", "l", "b", "u",
      "m", "_", "i", "d", "}">>

\* "/albums?userId={user_id}"
USER_ALBUMS ==
    <<"/", "a", "l", "b", "u", "m", "s", "?", "u", "s", "e", "r", "I",
      "d", "=", "{", "u", "s", "e", "r", "_", "i", "d", "}">>

\* "/photos"
PHOTOS ==
    <<"/", "p", "h", "o", "t", "o", "s">>

\* "/photos/{photo_id}"
PHOTO_BY_ID ==
    <<"/", "p", "h", "o", "t", "o", "s", "/", "{", "p", "h", "o", "t",
      "o", "_", "i", "d", "}">>

Templates ==
    {USERS, USER_BY_ID, POSTS, POST_BY_ID,
     USER_POSTS, COMMENTS, COMMENT_BY_ID, POST_COMMENTS,
     ALBUMS, ALBUM_BY_ID, USER_ALBUMS, PHOTOS,
     PHOTO_BY_ID}

\* The keyword names the tests pass to str.format.
KeywordNames ==
    {<<"u", "s", "e", "r", "_", "i", "d">>,
     <<"p", "o", "s", "t", "_", "i", "d">>,
     <<"c", "o", "m", "m", "e", "n", "t", "_", "i", "d">>,
     <<"a", "l", "b", "u", "m", "_", "i", "d">>,
     <<"p", "h", "o", "t", "o", "_", "i", "d">>}

KeywordOf(name) ==
    CASE name = "user_id" -> <<"u", "s", "e", "r", "_", "i", "d">>
      [] name = "post_id" -> <<"p", "o", "s", "t", "_", "i", "d">>

\* APIEndpoints.get_full_url drops the base URL.
get_full_url_NoBase(endpoint) == endpoint

\* return f"{APIEndpoints.BASE_URL}{endpoint}"
get_full_url(endpoint) == BASE_URL \o endpoint

(***************************************************************************)
(* str.format and str(int), which the tests apply to the templates         *)
(* (tests/test_users_crud.py: USER_BY_ID.format(user_id=user_id)).         *)
(***************************************************************************)
Digit(d) == <<"0", "1", "2", "3", "4", "5", "6", "7", "8", "9">>[d + 1]

\* str(n) for an int n >= 0
RECURSIVE IntToStr(_)
IntToStr(n) ==
    IF n < 10 THEN <<Digit(n)>> ELSE IntToStr(n \div 10) \o <<Digit(n % 10)>>

Min(S) == CHOOSE i \in S : \A j \in S : i <= j

\* The positions of the replacement fields' braces at or after position i.
OpensFrom(s, i) == {p \in i..Len(s) : s[p] = "{"}
CloseOf(s, o) == Min({p \in o..Len(s) : s[p] = "}"})

\* The names of the replacement fields of s.
FieldNames(s) == {SubSeq(s, o + 1, CloseOf(s, o) - 1) : o \in OpensFrom(s, 1)}

\* s with every replacement field replaced by val.
RECURSIVE Substitute(_, _, _)
Substitute(s, i, val) ==
    IF OpensFrom(s, i) = {} THEN SubSeq(s, i, Len(s))
    ELSE LET o == Min(OpensFrom(s, i))
         IN SubSeq(s, i, o - 1) \o val \o Substitute(s, CloseOf(s, o) + 1, val)

\* s.format(**{kw: n}): a field of another name is a KeyError.
Format(s, kw, n) ==
    IF \E name \in FieldNames(s) : name # kw
    THEN [exc |-> "KeyError", value |-> <<>>]
    ELSE [exc |-> "none", value |-> Substitute(s, 1, IntToStr(n))]

\* data/test_data.py
VALID_USER_ID == 1
VALID_POST_ID == 1
INVALID_USER_ID == 99999
INVALID_POST_ID == 99999

MaxId == 2
Ids ==
    {VALID_USER_ID, VALID_POST_ID, INVALID_USER_ID, INVALID_POST_ID}
        \cup 0..MaxId

\* A caller hands a template itself to get_full_url.
CallGetFullUrl ==
    /\ upc = "ready"
    /\ upc' = "returned"
    /\ ucall' = "get_full_url(template)"
    /\ uresult' = get_full_url(template)
    /\ UNCHANGED <<template, kwname, resid>>
    /\ UNCHANGED <<schemaVars, timeVars, clientVars, runVars,
                   fieldVars, caseVars, sharedVars>>

\* A caller formats the template as the tests do, then asks for the full URL.
FormatThenGetFullUrl ==
    /\ upc = "ready"
    /\ ucall' = "get_full_url(template.format(id))"
    /\ LET e == Format(template, kwname, resid)
       IN IF e.exc = "none"
          THEN /\ upc' = "returned"
               /\ uresult' = get_full_url(e.value)
          ELSE /\ upc' = "raised"
               /\ uresult' = <<>>
    /\ UNCHANGED <<template, kwname, resid>>
    /\ UNCHANGED <<schemaVars, timeVars, clientVars, runVars,
                   fieldVars, caseVars, sharedVars>>

InitUrl ==
    /\ IdleField
    /\ IdleCase
    /\ IdleShared
    /\ IdleSchema
    /\ IdleTime
    /\ IdleClient
    /\ IdleRun
    /\ template \in Templates
    /\ kwname \in KeywordNames
    /\ resid \in Ids
    /\ upc = "ready"
    /\ ucall = "none"
    /\ uresult = <<>>

NextUrl == CallGetFullUrl \/ FormatThenGetFullUrl

SpecUrl == InitUrl /\ [][NextUrl]_vars

\* C10, as stated: for every template and id the registry's function
\* returns BASE_URL followed by the template with its placeholder replaced
\* by the id.
C10_SubstitutesPlaceholder ==
    (upc = "returned" /\ ucall = "get_full_url(template)") =>
        uresult = BASE_URL \o Substitute(template, 1, IntToStr(resid))

\* C10, amended: get_full_url only concatenates: it returns BASE_URL
\* followed by its argument as given, replacement fields included; the
\* caller substitutes with str.format, and get_full_url of the formatted
\* template is BASE_URL followed by the template with its placeholder
\* replaced by the id.
C10_ConcatenatesOnly ==
    /\ (upc = "returned" /\ ucall = "get_full_url(template)") =>
            /\ uresult = BASE_URL \o template
            /\ FieldNames(uresult) = FieldNames(template)
    /\ (upc = "returned" /\ ucall = "get_full_url(template.format(id))") =>
            /\ uresult = BASE_URL \o Substitute(template, 1, IntToStr(resid))
            /\ FieldNames(uresult) = {}
    /\ upc = "raised" => \E name \in FieldNames(template) : name # kwname

\* get_full_url has returned a URL that still holds the template's
\* replacement field.
C10_Witness ==
    /\ upc = "returned"
    /\ ucall = "get_full_url(template)"
    /\ template = USER_BY_ID
    /\ resid = INVALID_USER_ID
    /\ FieldNames(uresult) # {}

(***************************************************************************)
(* utils/api_client.py: APIClient over requests.Session.                   *)
(***************************************************************************)
\* timeout: int = 10
DefaultTimeout == 10
\* Another timeout a caller may configure.
OtherTimeout == 5
Timeouts == {DefaultTimeout, OtherTimeout}

\* requests.Session(): the headers a new session starts with.
RequestsDefaultHeaders ==
    [h \in {"User-Agent", "Accept-Encoding", "Accept", "Connection"} |->
        CASE h = "User-Agent" -> "python-requests"
          [] h = "Accept-Encoding" -> "gzip, deflate"
          [] h = "Accept" -> "*/*"
          [] h = "Connection" -> "keep-alive"]

DefaultHeadersWithoutAccept ==
    [h \in {"Content-Type"} |-> "application/json"]

\* The headers __init__ sets for all requests.
DefaultHeaders ==
    [h \in {"Content-Type", "Accept"} |-> "application/json"]

\* dict.update
Update(h, u) ==
    [k \in DOMAIN h \cup DOMAIN u |-> IF k \in DOMAIN u THEN u[k] ELSE h[k]]

\* APIClient.__init__(base_url, timeout)
__init__(b, t) ==
    /\ base_url' = b
    /\ timeout' = t
    /\ session' = sessionsCreated + 1
    /\ sessionsCreated' = sessionsCreated + 1
    /\ sessionHeaders' = Update(RequestsDefaultHeaders, DefaultHeaders)
    /\ sessionClosed' = FALSE
    /\ clientsCreated' = clientsCreated + 1

GetRequestOnNewSession(endpoint, params) ==
    [method |-> "GET", url |-> base_url \o endpoint, params |-> params,
     json |-> PyNone, timeout |-> timeout, via |-> session + 1]

\* get: self.session.get(url, params=params, timeout=self.timeout)
GetRequest(endpoint, params) ==
    [method |-> "GET", url |-> base_url \o endpoint, params |-> params,
     json |-> PyNone, timeout |-> timeout, via |-> session]

\* post: self.session.post(url, json=json, timeout=self.timeout)
PostRequest(endpoint, json) ==
    [method |-> "POST", url |-> base_url \o endpoint, params |-> PyNone,
     json |-> json, timeout |-> timeout, via |-> session]

\* put: self.session.put(url, json=json, timeout=self.timeout)
PutRequest(endpoint, json) ==
    [method |-> "PUT", url |-> base_url \o endpoint, params |-> PyNone,
     json |-> json, timeout |-> timeout, via |-> session]

\* patch: self.session.patch(url, json=json, timeout=self.timeout)
PatchRequest(endpoint, json) ==
    [method |-> "PATCH", url |-> base_url \o endpoint, params |-> PyNone,
     json |-> json, timeout |-> timeout, via |-> session]

DeleteRequestDefaultTimeout(endpoint) ==
    [method |-> "DELETE", url |-> base_url \o endpoint, params |-> PyNone,
     json |-> PyNone, timeout |-> DefaultTimeout, via |-> session]

\* delete: self.session.delete(url, timeout=self.timeout)
DeleteRequest(endpoint) ==
    [method |-> "DELETE", url |-> base_url \o endpoint, params |-> PyNone,
     json |-> PyNone, timeout |-> timeout, via |-> session]

\* Session.request: the session's headers under the request's own (the
\* verb methods pass none), and a JSON body brings its Content-Type when
\* none is set.
Prepare(req) ==
    LET merged == IF req.via = session THEN sessionHeaders
                  ELSE RequestsDefaultHeaders
        headers == IF req.json # PyNone /\ "Content-Type" \notin DOMAIN merged
                   THEN Update(merged, [h \in {"Content-Type"} |->
                                            "application/json"])
                   ELSE merged
    IN [method |-> req.method, url |-> req.url, headers |-> headers,
        json |-> req.json, timeout |-> req.timeout, session |-> req.via,
        client |-> clientsCreated, closedAtSend |-> sessionClosed]

TransportErrors == {"Timeout", "ConnectionError"}
TransportOutcomes == {"response"} \cup TransportErrors

TransmitWithRetry(req, outcome) ==
    IF outcome \in TransportErrors
    THEN Append(Append(wire, Prepare(req)), Prepare(req))
    ELSE Append(wire, Prepare(req))

\* One self.session.<verb>(...) call: the session's adapters retry nothing,
\* so the request goes out once.
Transmit(req, outcome) == Append(wire, Prepare(req))

\* response = self.session.<verb>(...); return response: no handler stands
\* between the session's exception and the caller.
Returned(outcome) == outcome

MaxCalls == 3
NumTests == 2

\* The caller may call a verb method now.
CanCall ==
    /\ calls < MaxCalls
    /\ \/ usage = "plain" /\ cpc = "constructed"
       \/ usage = "with" /\ cpc = "inblock"
       \/ usage = "fixture" /\ cpc = "constructed" /\ tphase = "intest"

\* The end of a test: a function-scoped fixture is torn down after every
\* test, a session-scoped one after the last.
FixtureScopeFunction == "function"

\* @pytest.fixture(scope="session")
FixtureScope == "session"

EndTest(outcome) ==
    /\ testsDone' = testsDone + 1
    /\ outcomes' = Append(outcomes, outcome)
    /\ tphase' = IF FixtureScope = "function" \/ testsDone + 1 = NumTests
                 THEN "teardown" ELSE "between"

\* Where an exception out of a verb call takes the caller: out of the with
\* block, or out of the test.
AfterCall(seen) ==
    IF seen \in TransportErrors /\ usage = "with"
    THEN /\ cpc' = "exiting"
         /\ blockExc' = seen
         /\ UNCHANGED runVars
    ELSE IF seen \in TransportErrors /\ usage = "fixture"
    THEN /\ EndTest("failed")
         /\ UNCHANGED <<cpc, blockExc>>
    ELSE UNCHANGED <<cpc, blockExc, runVars>>

\* The body shared by the five verb methods.
Call(req) ==
    /\ CanCall
    /\ \E outcome \in TransportOutcomes :
        /\ wire' = Transmit(req, outcome)
        /\ transport' = outcome
        /\ callerSees' = Returned(outcome)
        /\ AfterCall(Returned(outcome))
    /\ calls' = calls + 1
    /\ UNCHANGED <<usage, configVars, sessionClosed, sessionsCreated,
                   clientsCreated, closeCalls, propagating>>
    /\ UNCHANGED <<schemaVars, timeVars, urlVars,
                   fieldVars, caseVars, sharedVars>>

get(endpoint, params) == Call(GetRequest(endpoint, params))
post(endpoint, json) == Call(PostRequest(endpoint, json))
put(endpoint, json) == Call(PutRequest(endpoint, json))
patch(endpoint, json) == Call(PatchRequest(endpoint, json))
delete(endpoint) == Call(DeleteRequest(endpoint))

\* APIClient.close: self.session.close()
close ==
    /\ sessionClosed' = TRUE
    /\ closeCalls' = closeCalls + 1

\* The endpoints and payloads the callers of the model use.
UserById == Format(USER_BY_ID, KeywordOf("user_id"), VALID_USER_ID).value
GetEndpoints == {USERS, UserById}
PostJsons == {PyNone, VALID_POST_CREATE}

Verbs ==
    \/ \E e \in GetEndpoints : get(e, PyNone)
    \/ \E j \in PostJsons : post(POSTS, j)
    \/ put(UserById, VALID_USER_CREATE)
    \/ patch(UserById, VALID_USER_CREATE)
    \/ delete(UserById)

(***************************************************************************)
(* A caller that constructs the client itself: used plainly and closed     *)
(* by hand, or as the context manager of a with statement.                 *)
(***************************************************************************)
Construct ==
    /\ usage \in {"plain", "with"}
    /\ cpc = "start"
    /\ \E t \in Timeouts : __init__(BASE_URL, t)
    /\ cpc' = "constructed"
    /\ UNCHANGED <<usage, closeCalls, wire, calls, transport, callerSees,
                   blockExc, propagating>>
    /\ UNCHANGED <<schemaVars, timeVars, urlVars, runVars,
                   fieldVars, caseVars, sharedVars>>

ExplicitClose ==
    /\ usage = "plain"
    /\ cpc = "constructed"
    /\ close
    /\ cpc' = "closed"
    /\ UNCHANGED <<usage, configVars, sessionsCreated, clientsCreated, wire,
                   calls, transport, callerSees, blockExc, propagating>>
    /\ UNCHANGED <<schemaVars, timeVars, urlVars, runVars,
                   fieldVars, caseVars, sharedVars>>

\* APIClient.__enter__: return self
__enter__ ==
    /\ usage = "with"
    /\ cpc = "constructed"
    /\ cpc' = "inblock"
    /\ UNCHANGED <<usage, configVars, sessionClosed, sessionsCreated,
                   clientsCreated, closeCalls, wire, calls, transport,
                   callerSees, blockExc, propagating>>
    /\ UNCHANGED <<schemaVars, timeVars, urlVars, runVars,
                   fieldVars, caseVars, sharedVars>>

\* A statement of the block other than a verb call raises (an assertion of
\* the validator, say).
BlockRaises ==
    /\ cpc = "inblock"
    /\ cpc' = "exiting"
    /\ blockExc' = "AssertionError"
    /\ UNCHANGED <<usage, configVars, sessionClosed, sessionsCreated,
                   clientsCreated, closeCalls, wire, calls, transport,
                   callerSees, propagating>>
    /\ UNCHANGED <<schemaVars, timeVars, urlVars, runVars,
                   fieldVars, caseVars, sharedVars>>

\* The block runs to its end.
BlockCompletes ==
    /\ cpc = "inblock"
    /\ cpc' = "exiting"
    /\ blockExc' = "none"
    /\ UNCHANGED <<usage, configVars, sessionClosed, sessionsCreated,
                   clientsCreated, closeCalls, wire, calls, transport,
                   callerSees, propagating>>
    /\ UNCHANGED <<schemaVars, timeVars, urlVars, runVars,
                   fieldVars, caseVars, sharedVars>>

\* What __exit__ returns: it has no return statement.
ExitReturn == "None"
\* The with statement swallows the exception when __exit__ returns a true
\* value.
Truthy(v) == v \notin {"None", "False"}

ExitClosesOnlyOnSuccess ==
    /\ cpc = "exiting"
    /\ IF blockExc = "none" THEN close
       ELSE UNCHANGED <<sessionClosed, closeCalls>>
    /\ cpc' = "left"
    /\ propagating' = IF Truthy(ExitReturn) THEN "none" ELSE blockExc
    /\ UNCHANGED <<usage, configVars, sessionsCreated, clientsCreated, wire,
                   calls, transport, callerSees, blockExc>>
    /\ UNCHANGED <<schemaVars, timeVars, urlVars, runVars,
                   fieldVars, caseVars, sharedVars>>

\* APIClient.__exit__(exc_type, exc_val, exc_tb): self.close()
__exit__ ==
    /\ cpc = "exiting"
    /\ close
    /\ cpc' = "left"
    /\ propagating' = IF Truthy(ExitReturn) THEN "none" ELSE blockExc
    /\ UNCHANGED <<usage, configVars, sessionsCreated, clientsCreated, wire,
                   calls, transport, callerSees, blockExc>>
    /\ UNCHANGED <<schemaVars, timeVars, urlVars, runVars,
                   fieldVars, caseVars, sharedVars>>

InitClient ==
    /\ IdleField
    /\ IdleCase
    /\ IdleShared
    /\ IdleSchema
    /\ IdleTime
    /\ IdleUrl
    /\ IdleRun
    /\ NoClient
    /\ usage \in {"plain", "with"}
    /\ cpc = "start"

NextClient ==
    \/ Construct
    \/ Verbs
    \/ ExplicitClose
    \/ __enter__
    \/ BlockRaises
    \/ BlockCompletes
    \/ __exit__

SpecClient == InitClient /\ [][NextClient]_vars

(***************************************************************************)
(* conftest.py: the api_client fixture under pytest's fixture scopes.      *)
(***************************************************************************)
\* client = APIClient(APIEndpoints.BASE_URL); yield client
api_client_setup ==
    /\ usage = "fixture"
    /\ tphase = "between"
    /\ testsDone < NumTests
    /\ cpc \in {"start", "closed"}
    /\ __init__(BASE_URL, DefaultTimeout)
    /\ cpc' = "constructed"
    /\ UNCHANGED <<usage, closeCalls, wire, calls, transport, callerSees,
                   blockExc, propagating>>
    /\ UNCHANGED <<schemaVars, timeVars, urlVars, runVars,
                   fieldVars, caseVars, sharedVars>>

\* A test that asks for api_client starts with the fixture's value.
StartTest ==
    /\ usage = "fixture"
    /\ tphase = "between"
    /\ testsDone < NumTests
    /\ cpc = "constructed"
    /\ tphase' = "intest"
    /\ UNCHANGED <<testsDone, outcomes>>
    /\ UNCHANGED <<schemaVars, timeVars, urlVars, clientVars,
                   fieldVars, caseVars, sharedVars>>

TestPasses ==
    /\ tphase = "intest"
    /\ EndTest("passed")
    /\ UNCHANGED <<schemaVars, timeVars, urlVars, clientVars,
                   fieldVars, caseVars, sharedVars>>

\* An assertion of the test fails.
TestFails ==
    /\ tphase = "intest"
    /\ EndTest("failed")
    /\ UNCHANGED <<schemaVars, timeVars, urlVars, clientVars,
                   fieldVars, caseVars, sharedVars>>

\* After the yield: client.close()
api_client_teardown ==
    /\ usage = "fixture"
    /\ tphase = "teardown"
    /\ close
    /\ cpc' = "closed"
    /\ tphase' = IF testsDone = NumTests THEN "finished" ELSE "between"
    /\ UNCHANGED <<testsDone, outcomes>>
    /\ UNCHANGED <<usage, configVars, sessionsCreated, clientsCreated, wire,
                   calls, transport, callerSees, blockExc, propagating>>
    /\ UNCHANGED <<schemaVars, timeVars, urlVars,
                   fieldVars, caseVars, sharedVars>>

InitSession ==
    /\ IdleField
    /\ IdleCase
    /\ IdleShared
    /\ IdleSchema
    /\ IdleTime
    /\ IdleUrl
    /\ NoClient
    /\ usage = "fixture"
    /\ cpc = "start"
    /\ tphase = "between"
    /\ testsDone = 0
    /\ outcomes = <<>>

NextSession ==
    \/ api_client_setup
    \/ StartTest
    \/ Verbs
    \/ TestPasses
    \/ TestFails
    \/ api_client_teardown

SpecSession == InitSession /\ [][NextSession]_vars

(***************************************************************************)
(* The claims about the client and the test run.                           *)
(***************************************************************************)
Sent(method) == \E i \in 1..Len(wire) : wire[i].method = method

\* C4: when an APIClient is the context manager of a with statement, its
\* session has been closed by the time control leaves the block, whether the
\* block ran to its end or a statement of it raised (a verb call's timeout or
\* connection error included), and the exception is not suppressed.
C4_ClosedOnEveryExit ==
    (usage = "with" /\ cpc = "left") =>
        /\ sessionClosed
        /\ closeCalls = 1
        /\ propagating = blockExc

\* Control has left a with block that a verb call's timeout ended.
C4_Witness ==
    /\ usage = "with"
    /\ cpc = "left"
    /\ blockExc = "Timeout"
    /\ propagating = "Timeout"
    /\ sessionClosed

C6_TimeoutOnEveryRequest ==
    \A i \in 1..Len(wire) : wire[i].timeout = timeout /\ timeout \in Timeouts

\* A DELETE and a POST have gone out of a client built with a timeout other
\* than the default.
C6_Witness ==
    /\ timeout = OtherTimeout
    /\ Sent("DELETE")
    /\ Sent("POST")

\* C7: the session created in the constructor is the one every verb call
\* uses, and no verb call creates or installs another.
C7_OneSession ==
    cpc # "start" =>
        /\ sessionsCreated = 1
        /\ session = 1
        /\ \A i \in 1..Len(wire) : wire[i].session = session

\* Three requests of different verbs have gone out.
C7_Witness ==
    /\ Len(wire) = 3
    /\ wire[1].method = "GET"
    /\ wire[2].method = "PUT"
    /\ wire[3].method = "GET"

\* C8: a verb call makes one request attempt; a timeout or connection error
\* of the transport reaches the caller as it is, with no second attempt, and
\* the call leaves base_url, timeout, headers and session as they were.
C8_OneAttemptPerCall ==
    [][calls' = calls + 1 =>
        /\ Len(wire') = Len(wire) + 1
        /\ callerSees' = transport'
        /\ configVars' = configVars]_vars

\* A second call has failed with a connection error and sent one request.
C8_Witness ==
    /\ calls = 2
    /\ Len(wire) = 2
    /\ transport = "ConnectionError"
    /\ callerSees = "ConnectionError"

\* C9: every request of every verb method, the bodiless GET and DELETE
\* included, carries Content-Type: application/json and Accept:
\* application/json.
C9_JsonHeaders ==
    \A i \in 1..Len(wire) :
        /\ "Content-Type" \in DOMAIN wire[i].headers
        /\ wire[i].headers["Content-Type"] = "application/json"
        /\ "Accept" \in DOMAIN wire[i].headers
        /\ wire[i].headers["Accept"] = "application/json"

\* A GET and a DELETE have gone out.
C9_Witness ==
    /\ Sent("GET")
    /\ Sent("DELETE")
    /\ \E i \in 1..Len(wire) : wire[i].json = PyNone

(***************************************************************************)
(* utils/validators.py: the field validators.  A value is what json()      *)
(* decodes: a scalar (pytype, val), a list (elems) or a dict (items).      *)
(***************************************************************************)
PyList(elems) == [pytype |-> "list", elems |-> elems]

NumericTypes == {"int", "bool", "float"}

\* The number a numeric value of the model stands for, in tenths.
Tenths(v) ==
    CASE v.val \in {"0", "0.0", "false"} -> 0
      [] v.val \in {"1", "1.0", "true"} -> 10
      [] v.val = "1.5" -> 15
      [] v.val = "2" -> 20
      [] v.val = "11" -> 110
      [] v.val = "101" -> 1010
      [] v.val = "99999" -> 999990

\* Python's == on decoded JSON: numbers (bool included) by value, everything
\* else by type and content.
RECURSIVE PyEq(_, _)
PyEq(a, b) ==
    IF a.pytype \in NumericTypes /\ b.pytype \in NumericTypes
    THEN Tenths(a) = Tenths(b)
    ELSE IF a.pytype # b.pytype THEN FALSE
    ELSE CASE a.pytype = "list" ->
                /\ Len(a.elems) = Len(b.elems)
                /\ \A i \in 1..Len(a.elems) : PyEq(a.elems[i], b.elems[i])
           [] a.pytype = "dict" ->
                /\ DOMAIN a.items = DOMAIN b.items
                /\ \A k \in DOMAIN a.items : PyEq(a.items[k], b.items[k])
           [] OTHER -> a.val = b.val

\* x in <a list>
InList(x, l) == \E i \in 1..Len(l) : PyEq(x, l[i])

\* field_name in response_json, for the containers of the model.
Contains(rj, f) ==
    CASE rj.pytype = "dict" -> f \in DOMAIN rj.items
      [] rj.pytype = "list" -> InList(PyStr(f), rj.elems)

FieldNotFound ==
    [name |-> "AssertionError", message |-> "Field not found in response"]

\* validate_field_exists: the assert and its message, which calls
\* response_json.keys().
FieldExists(rj, f) ==
    IF rj.pytype \notin {"dict", "list"}
    THEN [name |-> "TypeError", message |-> "argument is not iterable"]
    ELSE IF Contains(rj, f) THEN NoException
    ELSE IF rj.pytype = "dict" THEN FieldNotFound
    ELSE [name |-> "AttributeError", message |-> "no attribute keys"]

\* response_json[field_name]
Subscript(rj, f) ==
    IF rj.pytype = "dict"
    THEN IF f \in DOMAIN rj.items
         THEN [exc |-> NoException, value |-> rj.items[f]]
         ELSE [exc |-> [name |-> "KeyError", message |-> f], value |-> PyNone]
    ELSE [exc |-> [name |-> "TypeError",
                   message |-> "indices must be integers"],
          value |-> PyNone]

\* type(value)
TypeOf(value) == value.pytype

TypeMatchesIsInstance(actual_type, expected) ==
    actual_type = expected \/ (actual_type = "bool" /\ expected = "int")

\* actual_type == expected_type
TypeMatches(actual_type, expected) == actual_type = expected

\* validate_field_type, as the exception it ends with.
FieldType(rj, f, expected) ==
    LET found == FieldExists(rj, f)
        got == Subscript(rj, f)
    IN IF found # NoException THEN found
       ELSE IF got.exc # NoException THEN got.exc
       ELSE IF TypeMatches(TypeOf(got.value), expected) THEN NoException
       ELSE [name |-> "AssertionError", message |-> "Field expected type"]

\* [None, "", [], {}]
EmptyValues == <<PyNone, PyStr(""), PyList(<<>>), Dict(EmptyItems)>>

IsEmptyFalsy(value) ==
    \/ InList(value, EmptyValues)
    \/ value.pytype \in NumericTypes /\ Tenths(value) = 0

\* value in [None, "", [], {}]
IsEmpty(value) == InList(value, EmptyValues)

\* validate_not_empty, as the exception it ends with.
NotEmpty(rj, f) ==
    LET found == FieldExists(rj, f)
        got == Subscript(rj, f)
    IN IF found # NoException THEN found
       ELSE IF got.exc # NoException THEN got.exc
       ELSE IF ~IsEmpty(got.value) THEN NoException
       ELSE [name |-> "AssertionError", message |-> "Field is empty"]

\* One call of a field validator ends by returning None or by raising.
EndFieldCall(name, exc) ==
    /\ fpc = "ready"
    /\ fcall' = name
    /\ fexc' = exc
    /\ fpc' = IF exc = NoException THEN "returned" ELSE "raised"
    /\ UNCHANGED <<response_json, field_name, expected_type>>
    /\ UNCHANGED <<schemaVars, timeVars, urlVars, clientVars, runVars,
                   caseVars, sharedVars>>

validate_field_exists ==
    EndFieldCall("validate_field_exists", FieldExists(response_json, field_name))

validate_field_type ==
    EndFieldCall("validate_field_type",
                 FieldType(response_json, field_name, expected_type))

validate_not_empty ==
    EndFieldCall("validate_not_empty", NotEmpty(response_json, field_name))

(***************************************************************************)
(* The inputs of a field validator: a body with up to two of the fields    *)
(* the tests name, each holding one of the values below, or a body that    *)
(* is no dict.                                                             *)
(***************************************************************************)
FieldNameChoices == {"id", "name"}

PyTypeNames == {"int", "str", "bool", "float", "list", "dict", "NoneType"}

FieldBodies ==
    LET OneItem == [k \in {"a"} |-> PyInt("1")]
        FieldValues ==
            {PyNone, PyStr(""), PyStr("Leanne Graham"), PyInt("0"),
             PyInt("1"), PyBool("false"), PyBool("true"), PyFloat("0.0"),
             PyFloat("1.5"), PyList(<<>>), PyList(<<PyInt("0")>>),
             Dict(EmptyItems), Dict(OneItem)}
    IN {Dict(items) :
            items \in UNION {[D -> FieldValues] :
                                D \in SUBSET FieldNameChoices}}
       \cup {PyList(<<>>), PyList(<<PyStr("id")>>), PyNone}

InitField ==
    /\ IdleSchema
    /\ IdleTime
    /\ IdleUrl
    /\ IdleClient
    /\ IdleRun
    /\ IdleCase
    /\ IdleShared
    /\ response_json \in FieldBodies
    /\ field_name \in FieldNameChoices
    /\ expected_type \in PyTypeNames
    /\ fcall = "none"
    /\ fpc = "ready"
    /\ fexc = NoException

NextField ==
    \/ validate_field_exists
    \/ validate_field_type
    \/ validate_not_empty

SpecField == InitField /\ [][NextField]_vars

\* The call was made on a dict, the declared type of response_json.
OnDict(name) ==
    /\ fpc \in {"returned", "raised"}
    /\ fcall = name
    /\ response_json.pytype = "dict"

Present == field_name \in DOMAIN response_json.items

\* C11: validate_not_empty returns normally exactly when the field is
\* present and its value is none of null, "", [] and {}; a missing field
\* raises the field-not-found AssertionError and no KeyError, and 0, 0.0
\* and false pass as non-empty.
C11_NotEmptyIffPresentAndFilled ==
    OnDict("validate_not_empty") =>
        /\ fpc = "returned" <=>
                /\ Present
                /\ response_json.items[field_name] \notin
                        {PyNone, PyStr(""), PyList(<<>>), Dict(EmptyItems)}
        /\ ~Present => fexc = FieldNotFound
        /\ fexc.name # "KeyError"
        /\ (Present /\ response_json.items[field_name] \in
                {PyInt("0"), PyFloat("0.0"), PyBool("false")}) =>
                fpc = "returned"

\* validate_not_empty has returned on a field holding false.
C11_Witness ==
    /\ OnDict("validate_not_empty")
    /\ fpc = "returned"
    /\ Present
    /\ response_json.items[field_name] = PyBool("false")

\* C12: validate_field_type returns normally exactly when the field is
\* present and the type of its value is the expected type itself: true
\* fails an expected int; an absent field fails with the field-not-found
\* AssertionError, whatever the expected type.
C12_ExactTypeOnly ==
    OnDict("validate_field_type") =>
        /\ fpc = "returned" <=>
                /\ Present
                /\ response_json.items[field_name].pytype = expected_type
        /\ ~Present => fexc = FieldNotFound
        /\ (/\ Present
            /\ response_json.items[field_name].pytype = "bool"
            /\ expected_type = "int") => fpc = "raised"

\* validate_field_type has rejected true where an int was expected.
C12_Witness ==
    /\ OnDict("validate_field_type")
    /\ fpc = "raised"
    /\ Present
    /\ response_json.items[field_name] = PyBool("true")
    /\ expected_type = "int"
    /\ fexc.message = "Field expected type"

(***************************************************************************)
(* tests/test_users_crud.py and tests/test_posts.py: a test case run       *)
(* against the response the client returned.  A response is                *)
(* [status_code, elapsed, content_type, data], data being response.json(). *)
(***************************************************************************)
\* Statement sequencing: the second statement runs when the first raised
\* nothing.
Then(first, rest) == IF first # NoException THEN first ELSE rest

AssertionFailed(message) == [name |-> "AssertionError", message |-> message]

\* assert condition, message
AssertThat(condition, message) ==
    IF condition THEN NoException ELSE AssertionFailed(message)

\* validate_status_code
StatusCode(r, expected_code) ==
    AssertThat(r.status_code = expected_code, "Expected status")

\* validate_response_time, as the exception it ends with.
ResponseTime(r, limit) ==
    AssertThat(WithinLimit(ResponseTimeMs(r.elapsed), limit),
               "Response time exceeds limit")

\* expected_type in content_type, for the header values of the model.
JsonContentTypes == {"application/json", "application/json; charset=utf-8"}

\* validate_content_type, with the default expected_type.
ContentType(r) ==
    AssertThat(r.content_type \in JsonContentTypes, "Expected Content-Type")

\* assert data[field] == expected
AssertFieldEquals(data, f, expected) ==
    LET got == Subscript(data, f)
    IN Then(got.exc, AssertThat(PyEq(got.value, expected), "assert =="))

\* created_resources.append((kind, data["id"]))
Track(kind, data) == Subscript(data, "id").exc

\* test_create_user, as the exception it ends with.
CreateUserChecks(r) ==
    Then(StatusCode(r, 201),
    Then(ResponseTime(r, MAX_RESPONSE_TIME_POST),
    Then(FieldExists(r.data, "id"),
    Then(FieldType(r.data, "id", "int"),
    Then(AssertFieldEquals(r.data, "name", VALID_USER_CREATE.items["name"]),
    Then(AssertFieldEquals(r.data, "email", VALID_USER_CREATE.items["email"]),
         Track("user", r.data)))))))

\* test_create_post, as the exception it ends with.
CreatePostChecks(r) ==
    Then(StatusCode(r, 201),
    Then(ResponseTime(r, MAX_RESPONSE_TIME_POST),
    Then(FieldExists(r.data, "id"),
    Then(AssertFieldEquals(r.data, "title", VALID_POST_CREATE.items["title"]),
    Then(AssertFieldEquals(r.data, "body", VALID_POST_CREATE.items["body"]),
    Then(AssertFieldEquals(r.data, "userId",
                           VALID_POST_CREATE.items["userId"]),
         Track("post", r.data)))))))

\* assert isinstance(data, list); assert len(data) > 0
NonEmptyList(data) ==
    Then(AssertThat(data.pytype = "list", "Response should be a list"),
         AssertThat(Len(data.elems) > 0, "list should not be empty"))

LastElement(data) == data.elems[Len(data.elems)]

\* data[0]
FirstElement(data) == data.elems[1]

\* validate_field_exists on each of the fields, in order.
RECURSIVE FieldsExist(_, _)
FieldsExist(element, fields) ==
    IF fields = <<>> THEN NoException
    ELSE Then(FieldExists(element, Head(fields)),
              FieldsExist(element, Tail(fields)))

\* for comment in data: assert comment["postId"] == post_id
RECURSIVE EachBelongsTo(_, _, _)
EachBelongsTo(elems, f, id) ==
    IF elems = <<>> THEN NoException
    ELSE Then(AssertFieldEquals(Head(elems), f, id),
              EachBelongsTo(Tail(elems), f, id))

\* The fields each list test looks for in the first element.
CheckedFields(name) ==
    CASE name = "test_get_all_users" -> <<"id", "name", "email">>
      [] name = "test_get_all_posts" -> <<"id", "userId", "title", "body">>
      [] name = "test_get_post_comments" -> <<"postId", "email", "body">>

\* test_get_all_users, as the exception it ends with.
GetAllUsersChecks(r) ==
    Then(StatusCode(r, 200),
    Then(ResponseTime(r, MAX_RESPONSE_TIME_GET),
    Then(ContentType(r),
    Then(NonEmptyList(r.data),
         FieldsExist(FirstElement(r.data),
                     CheckedFields("test_get_all_users"))))))

\* test_get_all_posts, as the exception it ends with.
GetAllPostsChecks(r) ==
    Then(StatusCode(r, 200),
    Then(ResponseTime(r, MAX_RESPONSE_TIME_GET),
    Then(NonEmptyList(r.data),
         FieldsExist(FirstElement(r.data),
                     CheckedFields("test_get_all_posts")))))

\* test_get_post_comments, as the exception it ends with.
GetPostCommentsChecks(r) ==
    Then(StatusCode(r, 200),
    Then(NonEmptyList(r.data),
    Then(FieldsExist(FirstElement(r.data),
                     CheckedFields("test_get_post_comments")),
         EachBelongsTo(r.data.elems, "postId", PyInt("1")))))

\* A test case ends: passed, or failed with the exception that left it.
EndCase(name, exc, kind) ==
    /\ kpc = "ready"
    /\ testcase = name
    /\ kexc' = exc
    /\ kpc' = IF exc = NoException THEN "passed" ELSE "failed"
    /\ created_resources' =
            IF exc = NoException /\ kind # "none"
            THEN Append(created_resources,
                        <<kind, Subscript(response.data, "id").value>>)
            ELSE created_resources
    /\ UNCHANGED <<testcase, response>>
    /\ UNCHANGED <<schemaVars, timeVars, urlVars, clientVars, runVars,
                   fieldVars, sharedVars>>

test_create_user ==
    EndCase("test_create_user", CreateUserChecks(response), "user")

test_create_post ==
    EndCase("test_create_post", CreatePostChecks(response), "post")

test_get_all_users ==
    EndCase("test_get_all_users", GetAllUsersChecks(response), "none")

test_get_all_posts ==
    EndCase("test_get_all_posts", GetAllPostsChecks(response), "none")

test_get_post_comments ==
    EndCase("test_get_post_comments", GetPostCommentsChecks(response), "none")

(***************************************************************************)
(* The responses a test case may meet: for a create test, the payload      *)
(* echoed with each field kept, altered or dropped and an id of some type; *)
(* for a list test, a list of elements that are complete or lack a field.  *)
(***************************************************************************)
MaxListLen == 2

CreateTests == {"test_create_user", "test_create_post"}
ListTests ==
    {"test_get_all_users", "test_get_all_posts", "test_get_post_comments"}

\* json=TestData.VALID_..._CREATE of each create test.
Payload(name) ==
    CASE name = "test_create_user" -> VALID_USER_CREATE
      [] name = "test_create_post" -> VALID_POST_CREATE

\* The schema of the resource each list test reads.
ResourceSchema(name) ==
    CASE name = "test_get_all_users" -> USER_SCHEMA
      [] name = "test_get_all_posts" -> POST_SCHEMA
      [] name = "test_get_post_comments" -> COMMENT_SCHEMA

EchoBodies(payload) ==
    LET fields == DOMAIN payload.items
        Altered(v) ==
            IF v.pytype = "str" THEN PyStr("changed") ELSE PyInt("2")
        IdChoices ==
            {PyInt("11"), PyInt("101"), PyStr("101"), PyBool("true"),
             PyFloat("1.5"), PyNone}
        Echo(how, id) ==
            Dict([f \in {g \in fields : how[g] # "dropped"} \cup id |->
                    IF f \in fields /\ how[f] = "same" THEN payload.items[f]
                    ELSE IF f \in fields THEN Altered(payload.items[f])
                    ELSE PyNone])
    IN {Echo(how, {}) : how \in [fields -> {"same", "altered", "dropped"}]}
       \cup {[Echo(how, {"id"}) EXCEPT !.items["id"] = v] :
                how \in [fields -> {"same", "altered", "dropped"}],
                v \in IdChoices}

\* The elements a list may hold: one with every property of the schema,
\* that one without one of the required fields or with another id, and a
\* list of field names.
Elements(name) ==
    LET s == ResourceSchema(name)
        fields == CheckedFields(name)
        SampleValue(p) ==
            IF p.type = "integer" THEN PyInt("1") ELSE PyStr("sample")
        Complete == Dict([f \in PropNames(s) |-> SampleValue(PropOf(s, f))])
        Without(f) ==
            Dict([g \in DOMAIN Complete.items \ {f} |-> Complete.items[g]])
    IN {Complete}
       \cup {Without(f) : f \in Range(s.required)}
       \cup {[Complete EXCEPT !.items["id"] = PyInt("2")]}
       \cup {PyList([i \in 1..Len(fields) |-> PyStr(fields[i])])}
       \cup IF name = "test_get_post_comments"
            THEN {[Complete EXCEPT !.items["postId"] = PyInt("2")]}
            ELSE {}

CaseBodies(name) ==
    IF name \in CreateTests
    THEN EchoBodies(Payload(name)) \cup {PyList(<<PyStr("id")>>)}
    ELSE {PyList(elems) :
            elems \in UNION {[1..n -> Elements(name)] : n \in 0..MaxListLen}}
         \cup {Dict(EmptyItems), PyNone}

\* The elapsed times: one inside the limit and one of MAX_RESPONSE_TIME_GET.
Responses(name) ==
    [status_code : {200, 201},
     elapsed : {TimeDelta(150000), TimeDelta(MAX_RESPONSE_TIME_GET * 1000)},
     content_type : {"application/json; charset=utf-8", "text/html"},
     data : CaseBodies(name)]

InitCase ==
    /\ IdleSchema
    /\ IdleTime
    /\ IdleUrl
    /\ IdleClient
    /\ IdleRun
    /\ IdleField
    /\ IdleShared
    /\ testcase \in CreateTests \cup ListTests
    /\ response \in Responses(testcase)
    /\ kpc = "ready"
    /\ kexc = NoException
    /\ created_resources = <<>>

NextCase ==
    \/ test_create_user
    \/ test_create_post
    \/ test_get_all_users
    \/ test_get_all_posts
    \/ test_get_post_comments

SpecCase == InitCase /\ [][NextCase]_vars

\* C13, as stated: a create test passes only when the response has status
\* 201 and its body holds every field of the submitted payload with the
\* submitted value, and an id of type int.
C13_PassOnlyOnFullEcho ==
    (kpc = "passed" /\ testcase \in CreateTests) =>
        /\ response.status_code = 201
        /\ response.data.pytype = "dict"
        /\ \A f \in DOMAIN Payload(testcase).items :
                /\ f \in DOMAIN response.data.items
                /\ response.data.items[f] = Payload(testcase).items[f]
        /\ "id" \in DOMAIN response.data.items
        /\ response.data.items["id"].pytype = "int"

\* C14, as stated: a list test passes only when the body is a non-empty
\* list and every element of it holds the required fields of the resource.
C14_EveryElementChecked ==
    (kpc = "passed" /\ testcase \in ListTests) =>
        /\ response.data.pytype = "list"
        /\ Len(response.data.elems) > 0
        /\ \A i \in 1..Len(response.data.elems) :
                /\ response.data.elems[i].pytype = "dict"
                /\ Range(ResourceSchema(testcase).required) \subseteq
                        DOMAIN response.data.elems[i].items

\* C14, amended: a list test passes only when the status is 200 and the
\* body is a non-empty list whose first element holds the fields the test
\* names; a first element that is a mapping and lacks one of them fails the
\* test.  Of the later elements only test_get_post_comments reads
\* anything: postId, which must equal the requested post id in each.
C14_FirstElementChecked ==
    (kpc = "passed" /\ testcase \in ListTests) =>
        /\ response.status_code = 200
        /\ response.data.pytype = "list"
        /\ Len(response.data.elems) > 0
        /\ response.data.elems[1].pytype = "dict" =>
                Range(CheckedFields(testcase)) \subseteq
                    DOMAIN response.data.elems[1].items
        /\ testcase = "test_get_post_comments" =>
                \A i \in 1..Len(response.data.elems) :
                    /\ response.data.elems[i].pytype = "dict"
                    /\ "postId" \in DOMAIN response.data.elems[i].items
                    /\ response.data.elems[i].items["postId"] = PyInt("1")

\* test_get_all_users has passed on a list whose second element has no
\* name.
C14_Witness ==
    /\ kpc = "passed"
    /\ testcase = "test_get_all_users"
    /\ Len(response.data.elems) = 2
    /\ response.data.elems[1].pytype = "dict"
    /\ response.data.elems[2].pytype = "dict"
    /\ "name" \notin DOMAIN response.data.elems[2].items

(***************************************************************************)
(* utils/api_client.py: several callers inside the verb methods of one     *)
(* APIClient at once.  A frame holds a caller's arguments and locals; the  *)
(* statements of a verb method are the steps BuildUrl, Send / Receive (the *)
(* two ends of the blocking self.session.<verb>(...) call) and Return.     *)
(***************************************************************************)
NumCallers == 2
MaxSharedCalls == 2

Callers == 1..NumCallers

NoResponse == [for |-> 0, outcome |-> "none"]

IdleFrame ==
    [pc |-> "idle", verb |-> "none", endpoint |-> <<>>, json |-> PyNone,
     url |-> <<>>, awaiting |-> 0, response |-> NoResponse,
     returned |-> <<>>]

\* The calls the callers make.
SharedCalls ==
    {[verb |-> "GET", endpoint |-> USERS, json |-> PyNone],
     [verb |-> "POST", endpoint |-> POSTS, json |-> VALID_POST_CREATE],
     [verb |-> "DELETE", endpoint |-> UserById, json |-> PyNone]}

\* The shared client is constructed once, before any caller uses it.
SharedConstruct ==
    /\ clientsCreated = 0
    /\ \E t \in Timeouts : __init__(BASE_URL, t)
    /\ UNCHANGED <<usage, cpc, closeCalls, wire, calls, transport,
                   callerSees, blockExc, propagating>>
    /\ UNCHANGED <<schemaVars, timeVars, urlVars, runVars, fieldVars,
                   caseVars, sharedVars>>

\* url = f"{self.base_url}{endpoint}"
BuildUrl(c) ==
    /\ clientsCreated = 1
    /\ frames[c].pc = "idle"
    /\ started < MaxSharedCalls
    /\ \E call \in SharedCalls :
        frames' = [frames EXCEPT ![c] =
                    [@ EXCEPT !.pc = "built",
                              !.verb = call.verb,
                              !.endpoint = call.endpoint,
                              !.json = call.json,
                              !.url = base_url \o call.endpoint,
                              !.awaiting = 0,
                              !.response = NoResponse]]
    /\ started' = started + 1
    /\ UNCHANGED network
    /\ UNCHANGED <<schemaVars, timeVars, urlVars, clientVars, runVars,
                   fieldVars, caseVars>>

\* The arguments the frame's verb method gives the session.
FrameRequest(f) ==
    LET req == CASE f.verb = "GET" -> GetRequest(f.endpoint, PyNone)
                 [] f.verb = "POST" -> PostRequest(f.endpoint, f.json)
                 [] f.verb = "PUT" -> PutRequest(f.endpoint, f.json)
                 [] f.verb = "PATCH" -> PatchRequest(f.endpoint, f.json)
                 [] f.verb = "DELETE" -> DeleteRequest(f.endpoint)
    IN [req EXCEPT !.url = f.url]

\* self.session.<verb>(url, ..., timeout=self.timeout): the request leaves.
Send(c) ==
    /\ frames[c].pc = "built"
    /\ network' = Append(network,
                         [caller |-> c,
                          request |-> Prepare(FrameRequest(frames[c])),
                          response |-> NoResponse])
    /\ frames' = [frames EXCEPT ![c] =
                    [@ EXCEPT !.pc = "waiting",
                              !.awaiting = Len(network) + 1]]
    /\ UNCHANGED started
    /\ UNCHANGED <<schemaVars, timeVars, urlVars, clientVars, runVars,
                   fieldVars, caseVars>>

\* The transport ends a request that is out: the answer of the server, or a
\* timeout or connection error.  Requests end in any order.
Respond(i) ==
    /\ i \in 1..Len(network)
    /\ network[i].response = NoResponse
    /\ \E outcome \in TransportOutcomes :
        network' = [network EXCEPT ![i].response =
                        [for |-> i, outcome |-> outcome]]
    /\ UNCHANGED <<frames, started>>
    /\ UNCHANGED <<schemaVars, timeVars, urlVars, clientVars, runVars,
                   fieldVars, caseVars>>

\* response = self.session.<verb>(...): the blocked call ends with what the
\* transport gave for its own request.
Receive(c) ==
    /\ frames[c].pc = "waiting"
    /\ network[frames[c].awaiting].response # NoResponse
    /\ frames' = [frames EXCEPT ![c] =
                    [@ EXCEPT !.pc = "received",
                              !.response =
                                  network[frames[c].awaiting].response]]
    /\ UNCHANGED <<network, started>>
    /\ UNCHANGED <<schemaVars, timeVars, urlVars, clientVars, runVars,
                   fieldVars, caseVars>>

\* The answer that reached a caller last.
LatestReceived(c) ==
    LET got == {d \in Callers : frames[d].response # NoResponse}
        last == CHOOSE d \in got :
                    \A e \in got : frames[e].awaiting <= frames[d].awaiting
    IN frames[last].response

\* return response: the local of this frame.
ReturnedResponse(c) == frames[c].response

\* The verb method ends: its caller has the response, or the exception of
\* the transport.
Return(c) ==
    /\ frames[c].pc = "received"
    /\ frames' = [frames EXCEPT ![c] =
                    [@ EXCEPT !.pc = "idle",
                              !.returned =
                                  Append(@, [request |-> frames[c].awaiting,
                                             got |-> ReturnedResponse(c)])]]
    /\ UNCHANGED <<network, started>>
    /\ UNCHANGED <<schemaVars, timeVars, urlVars, clientVars, runVars,
                   fieldVars, caseVars>>

InitShared ==
    /\ IdleSchema
    /\ IdleTime
    /\ IdleUrl
    /\ IdleClient
    /\ IdleRun
    /\ IdleField
    /\ IdleCase
    /\ frames = [c \in Callers |-> IdleFrame]
    /\ network = <<>>
    /\ started = 0

NextShared ==
    \/ SharedConstruct
    \/ \E c \in Callers : BuildUrl(c)
    \/ \E c \in Callers : Send(c)
    \/ \E i \in 1..MaxSharedCalls : Respond(i)
    \/ \E c \in Callers : Receive(c)
    \/ \E c \in Callers : Return(c)

SpecShared == InitShared /\ [][NextShared]_vars

\* C15: with several callers inside the verb methods of one client, in any
\* interleaving, base_url, timeout, the session and its headers stay as the
\* constructor left them, and every call ends with the response (or the
\* transport error) of the request that call sent.
C15_SharedUseIsSafe ==
    /\ [][clientsCreated = 1 => configVars' = configVars]_vars
    /\ [](clientsCreated = 1 =>
            /\ base_url = BASE_URL
            /\ timeout \in Timeouts
            /\ session = 1
            /\ sessionHeaders = Update(RequestsDefaultHeaders, DefaultHeaders)
            /\ \A i \in 1..Len(network) :
                    /\ network[i].request.timeout = timeout
                    /\ network[i].request.session = session
                    /\ network[i].request.headers = sessionHeaders
            /\ \A c \in Callers :
                \A k \in 1..Len(frames[c].returned) :
                    /\ frames[c].returned[k].got.for =
                            frames[c].returned[k].request
                    /\ network[frames[c].returned[k].request].caller = c)

\* Two calls were in flight together, the second was answered first, and
\* both callers have their answers.
C15_Witness ==
    /\ Len(network) >= 2
    /\ network[1].caller # network[2].caller
    /\ Len(frames[network[2].caller].returned) = 1
    /\ frames[network[1].caller].pc = "waiting"
    /\ frames[network[1].caller].awaiting = 1
    /\ network[1].response = NoResponse

====
